---- MODULE Spec2Model ----
(***************************************************************************)
(* URL shortener service (backend/server.py): one collection of            *)
(* URL-mapping records, a code allocator (shorten, shorten-bulk), a        *)
(* redirect resolver and a listing.  Strings are sequences of one-         *)
(* character strings, so that prefix tests, stripping and the regular      *)
(* expressions of the validators are computed as the code computes them.   *)
(***************************************************************************)
EXTENDS Integers, Sequences, FiniteSets, TLC

(***************************************************************************)
(* Characters and string helpers                                           *)
(***************************************************************************)
UpperSeq == <<"A","B","C","D","E","F","G","H","I","J","K","L","M",
              "N","O","P","Q","R","S","T","U","V","W","X","Y","Z">>

LowerSeq == <<"a","b","c","d","e","f","g","h","i","j","k","l","m",
              "n","o","p","q","r","s","t","u","v","w","x","y","z">>

\* string.digits, and the range 0-9 of a character class
Digits == {"0","1","2","3","4","5","6","7","8","9"}

\* a character outside ASCII is written as the token "U+" and its code point
\* in four to six hexadecimal digits

\* the decimal digits (category Nd) outside ASCII
UnicodeDigits ==
    {"U+0660", "U+0661", "U+0662", "U+0663", "U+0664", "U+0665",
     "U+0666", "U+0667", "U+0668", "U+0669", "U+06F0", "U+06F1",
     "U+06F2", "U+06F3", "U+06F4", "U+06F5", "U+06F6", "U+06F7",
     "U+06F8", "U+06F9", "U+07C0", "U+07C1", "U+07C2", "U+07C3",
     "U+07C4", "U+07C5", "U+07C6", "U+07C7", "U+07C8", "U+07C9",
     "U+0966", "U+0967", "U+0968", "U+0969", "U+096A", "U+096B",
     "U+096C", "U+096D", "U+096E", "U+096F", "U+09E6", "U+09E7",
     "U+09E8", "U+09E9", "U+09EA", "U+09EB", "U+09EC", "U+09ED",
     "U+09EE", "U+09EF", "U+0A66", "U+0A67", "U+0A68", "U+0A69",
     "U+0A6A", "U+0A6B", "U+0A6C", "U+0A6D", "U+0A6E", "U+0A6F",
     "U+0AE6", "U+0AE7", "U+0AE8", "U+0AE9", "U+0AEA", "U+0AEB",
     "U+0AEC", "U+0AED", "U+0AEE", "U+0AEF", "U+0B66", "U+0B67",
     "U+0B68", "U+0B69", "U+0B6A", "U+0B6B", "U+0B6C", "U+0B6D",
     "U+0B6E", "U+0B6F", "U+0BE6", "U+0BE7", "U+0BE8", "U+0BE9",
     "U+0BEA", "U+0BEB", "U+0BEC", "U+0BED", "U+0BEE", "U+0BEF",
     "U+0C66", "U+0C67", "U+0C68", "U+0C69", "U+0C6A", "U+0C6B",
     "U+0C6C", "U+0C6D", "U+0C6E", "U+0C6F", "U+0CE6", "U+0CE7",
     "U+0CE8", "U+0CE9", "U+0CEA", "U+0CEB", "U+0CEC", "U+0CED",
     "U+0CEE", "U+0CEF", "U+0D66", "U+0D67", "U+0D68", "U+0D69",
     "U+0D6A", "U+0D6B", "U+0D6C", "U+0D6D", "U+0D6E", "U+0D6F",
     "U+0DE6", "U+0DE7", "U+0DE8", "U+0DE9", "U+0DEA", "U+0DEB",
     "U+0DEC", "U+0DED", "U+0DEE", "U+0DEF", "U+0E50", "U+0E51",
     "U+0E52", "U+0E53", "U+0E54", "U+0E55", "U+0E56", "U+0E57",
     "U+0E58", "U+0E59", "U+0ED0", "U+0ED1", "U+0ED2", "U+0ED3",
     "U+0ED4", "U+0ED5", "U+0ED6", "U+0ED7", "U+0ED8", "U+0ED9",
     "U+0F20", "U+0F21", "U+0F22", "U+0F23", "U+0F24", "U+0F25",
     "U+0F26", "U+0F27", "U+0F28", "U+0F29", "U+1040", "U+1041",
     "U+1042", "U+1043", "U+1044", "U+1045", "U+1046", "U+1047",
     "U+1048", "U+1049", "U+1090", "U+1091", "U+1092", "U+1093",
     "U+1094", "U+1095", "U+1096", "U+1097", "U+1098", "U+1099",
     "U+17E0", "U+17E1", "U+17E2", "U+17E3", "U+17E4", "U+17E5",
     "U+17E6", "U+17E7", "U+17E8", "U+17E9", "U+1810", "U+1811",
     "U+1812", "U+1813", "U+1814", "U+1815", "U+1816", "U+1817",
     "U+1818", "U+1819", "U+1946", "U+1947", "U+1948", "U+1949",
     "U+194A", "U+194B", "U+194C", "U+194D", "U+194E", "U+194F",
     "U+19D0", "U+19D1", "U+19D2", "U+19D3", "U+19D4", "U+19D5",
     "U+19D6", "U+19D7", "U+19D8", "U+19D9", "U+1A80", "U+1A81",
     "U+1A82", "U+1A83", "U+1A84", "U+1A85", "U+1A86", "U+1A87",
     "U+1A88", "U+1A89", "U+1A90", "U+1A91", "U+1A92", "U+1A93",
     "U+1A94", "U+1A95", "U+1A96", "U+1A97", "U+1A98", "U+1A99",
     "U+1B50", "U+1B51", "U+1B52", "U+1B53", "U+1B54", "U+1B55",
     "U+1B56", "U+1B57", "U+1B58", "U+1B59", "U+1BB0", "U+1BB1",
     "U+1BB2", "U+1BB3", "U+1BB4", "U+1BB5", "U+1BB6", "U+1BB7",
     "U+1BB8", "U+1BB9", "U+1C40", "U+1C41", "U+1C42", "U+1C43",
     "U+1C44", "U+1C45", "U+1C46", "U+1C47", "U+1C48", "U+1C49",
     "U+1C50", "U+1C51", "U+1C52", "U+1C53", "U+1C54", "U+1C55",
     "U+1C56", "U+1C57", "U+1C58", "U+1C59", "U+A620", "U+A621",
     "U+A622", "U+A623", "U+A624", "U+A625", "U+A626", "U+A627",
     "U+A628", "U+A629", "U+A8D0", "U+A8D1", "U+A8D2", "U+A8D3",
     "U+A8D4", "U+A8D5", "U+A8D6", "U+A8D7", "U+A8D8", "U+A8D9",
     "U+A900", "U+A901", "U+A902", "U+A903", "U+A904", "U+A905",
     "U+A906", "U+A907", "U+A908", "U+A909", "U+A9D0", "U+A9D1",
     "U+A9D2", "U+A9D3", "U+A9D4", "U+A9D5", "U+A9D6", "U+A9D7",
     "U+A9D8", "U+A9D9", "U+A9F0", "U+A9F1", "U+A9F2", "U+A9F3",
     "U+A9F4", "U+A9F5", "U+A9F6", "U+A9F7", "U+A9F8", "U+A9F9",
     "U+AA50", "U+AA51", "U+AA52", "U+AA53", "U+AA54", "U+AA55",
     "U+AA56", "U+AA57", "U+AA58", "U+AA59", "U+ABF0", "U+ABF1",
     "U+ABF2", "U+ABF3", "U+ABF4", "U+ABF5", "U+ABF6", "U+ABF7",
     "U+ABF8", "U+ABF9", "U+FF10", "U+FF11", "U+FF12", "U+FF13",
     "U+FF14", "U+FF15", "U+FF16", "U+FF17", "U+FF18", "U+FF19",
     "U+104A0", "U+104A1", "U+104A2", "U+104A3", "U+104A4", "U+104A5",
     "U+104A6", "U+104A7", "U+104A8", "U+104A9", "U+10D30", "U+10D31",
     "U+10D32", "U+10D33", "U+10D34", "U+10D35", "U+10D36", "U+10D37",
     "U+10D38", "U+10D39", "U+11066", "U+11067", "U+11068", "U+11069",
     "U+1106A", "U+1106B", "U+1106C", "U+1106D", "U+1106E", "U+1106F",
     "U+110F0", "U+110F1", "U+110F2", "U+110F3", "U+110F4", "U+110F5",
     "U+110F6", "U+110F7", "U+110F8", "U+110F9", "U+11136", "U+11137",
     "U+11138", "U+11139", "U+1113A", "U+1113B", "U+1113C", "U+1113D",
     "U+1113E", "U+1113F", "U+111D0", "U+111D1", "U+111D2", "U+111D3",
     "U+111D4", "U+111D5", "U+111D6", "U+111D7", "U+111D8", "U+111D9",
     "U+112F0", "U+112F1", "U+112F2", "U+112F3", "U+112F4", "U+112F5",
     "U+112F6", "U+112F7", "U+112F8", "U+112F9", "U+11450", "U+11451",
     "U+11452", "U+11453", "U+11454", "U+11455", "U+11456", "U+11457",
     "U+11458", "U+11459", "U+114D0", "U+114D1", "U+114D2", "U+114D3",
     "U+114D4", "U+114D5", "U+114D6", "U+114D7", "U+114D8", "U+114D9",
     "U+11650", "U+11651", "U+11652", "U+11653", "U+11654", "U+11655",
     "U+11656", "U+11657", "U+11658", "U+11659", "U+116C0", "U+116C1",
     "U+116C2", "U+116C3", "U+116C4", "U+116C5", "U+116C6", "U+116C7",
     "U+116C8", "U+116C9", "U+11730", "U+11731", "U+11732", "U+11733",
     "U+11734", "U+11735", "U+11736", "U+11737", "U+11738", "U+11739",
     "U+118E0", "U+118E1", "U+118E2", "U+118E3", "U+118E4", "U+118E5",
     "U+118E6", "U+118E7", "U+118E8", "U+118E9", "U+11950", "U+11951",
     "U+11952", "U+11953", "U+11954", "U+11955", "U+11956", "U+11957",
     "U+11958", "U+11959", "U+11C50", "U+11C51", "U+11C52", "U+11C53",
     "U+11C54", "U+11C55", "U+11C56", "U+11C57", "U+11C58", "U+11C59",
     "U+11D50", "U+11D51", "U+11D52", "U+11D53", "U+11D54", "U+11D55",
     "U+11D56", "U+11D57", "U+11D58", "U+11D59", "U+11DA0", "U+11DA1",
     "U+11DA2", "U+11DA3", "U+11DA4", "U+11DA5", "U+11DA6", "U+11DA7",
     "U+11DA8", "U+11DA9", "U+16A60", "U+16A61", "U+16A62", "U+16A63",
     "U+16A64", "U+16A65", "U+16A66", "U+16A67", "U+16A68", "U+16A69",
     "U+16AC0", "U+16AC1", "U+16AC2", "U+16AC3", "U+16AC4", "U+16AC5",
     "U+16AC6", "U+16AC7", "U+16AC8", "U+16AC9", "U+16B50", "U+16B51",
     "U+16B52", "U+16B53", "U+16B54", "U+16B55", "U+16B56", "U+16B57",
     "U+16B58", "U+16B59", "U+1D7CE", "U+1D7CF", "U+1D7D0", "U+1D7D1",
     "U+1D7D2", "U+1D7D3", "U+1D7D4", "U+1D7D5", "U+1D7D6", "U+1D7D7",
     "U+1D7D8", "U+1D7D9", "U+1D7DA", "U+1D7DB", "U+1D7DC", "U+1D7DD",
     "U+1D7DE", "U+1D7DF", "U+1D7E0", "U+1D7E1", "U+1D7E2", "U+1D7E3",
     "U+1D7E4", "U+1D7E5", "U+1D7E6", "U+1D7E7", "U+1D7E8", "U+1D7E9",
     "U+1D7EA", "U+1D7EB", "U+1D7EC", "U+1D7ED", "U+1D7EE", "U+1D7EF",
     "U+1D7F0", "U+1D7F1", "U+1D7F2", "U+1D7F3", "U+1D7F4", "U+1D7F5",
     "U+1D7F6", "U+1D7F7", "U+1D7F8", "U+1D7F9", "U+1D7FA", "U+1D7FB",
     "U+1D7FC", "U+1D7FD", "U+1D7FE", "U+1D7FF", "U+1E140", "U+1E141",
     "U+1E142", "U+1E143", "U+1E144", "U+1E145", "U+1E146", "U+1E147",
     "U+1E148", "U+1E149", "U+1E2F0", "U+1E2F1", "U+1E2F2", "U+1E2F3",
     "U+1E2F4", "U+1E2F5", "U+1E2F6", "U+1E2F7", "U+1E2F8", "U+1E2F9",
     "U+1E950", "U+1E951", "U+1E952", "U+1E953", "U+1E954", "U+1E955",
     "U+1E956", "U+1E957", "U+1E958", "U+1E959", "U+1FBF0", "U+1FBF1",
     "U+1FBF2", "U+1FBF3", "U+1FBF4", "U+1FBF5", "U+1FBF6", "U+1FBF7",
     "U+1FBF8", "U+1FBF9"}

\* \d of a str pattern: every decimal digit
DecimalDigits == Digits \cup UnicodeDigits

\* string.ascii_letters
Letters == {UpperSeq[i] : i \in 1..26} \cup {LowerSeq[i] : i \in 1..26}

\* the characters outside ASCII whose case folding is an ASCII letter:
\* I with dot above, dotless i, long s, Kelvin sign
FoldedLetters == {"U+0130", "U+0131", "U+017F", "U+212A"}

\* [A-Z] under re.IGNORECASE
LettersIgnoreCase == Letters \cup FoldedLetters

\* string.ascii_letters + string.digits
AlphaNum == Letters \cup Digits

\* [A-Z0-9] under re.IGNORECASE
AlphaNumIgnoreCase == LettersIgnoreCase \cup Digits

\* the characters \s matches and str.strip() removes (str.isspace)
Whitespace ==
    {" ", "\t", "\n", "\r", "\f", "", "", "", "", "",
     "U+0085", "U+00A0", "U+1680", "U+2000", "U+2001", "U+2002", "U+2003",
     "U+2004", "U+2005", "U+2006", "U+2007", "U+2008", "U+2009", "U+200A",
     "U+2028", "U+2029", "U+202F", "U+205F", "U+3000"}

\* re.IGNORECASE on a literal: the lower-case letter a character of the
\* text is matched as
ToLower(c) ==
    IF \E i \in 1..26 : UpperSeq[i] = c
    THEN LowerSeq[CHOOSE i \in 1..26 : UpperSeq[i] = c]
    ELSE IF c = "U+017F" THEN "s"
    ELSE IF c = "U+212A" THEN "k"
    ELSE IF c \in {"U+0130", "U+0131"} THEN "i"
    ELSE c

\* str.startswith(lit)
StartsWith(v, lit) ==
    /\ Len(v) >= Len(lit)
    /\ \A k \in 1..Len(lit) : v[k] = lit[k]

\* the literal lit matched at position i of v, ignoring case
MatchLit(v, i, lit) ==
    /\ i + Len(lit) - 1 <= Len(v)
    /\ \A k \in 1..Len(lit) : ToLower(v[i + k - 1]) = lit[k]

RECURSIVE LStrip(_)
LStrip(v) ==
    IF v # <<>> /\ Head(v) \in Whitespace THEN LStrip(Tail(v)) ELSE v

RECURSIVE RStrip(_)
RStrip(v) ==
    IF v # <<>> /\ v[Len(v)] \in Whitespace
    THEN RStrip(SubSeq(v, 1, Len(v) - 1))
    ELSE v

\* str.strip()
Strip(v) == RStrip(LStrip(v))

HttpPrefix == <<"h","t","t","p",":","/","/">>

HttpsPrefix == <<"h","t","t","p","s",":","/","/">>

LocalhostLit == <<"l","o","c","a","l","h","o","s","t">>

(***************************************************************************)
(* URLShortenRequest.validate_url: the url pattern, matched from position  *)
(* 1; every operator returns the set of positions a part can end at.       *)
(***************************************************************************)
\* ^https?://
SchemeEnds(v) ==
    {i \in {8, 9} : \/ i = 8 /\ MatchLit(v, 1, HttpPrefix)
                    \/ i = 9 /\ MatchLit(v, 1, HttpsPrefix)}

\* [A-Z0-9](?:[A-Z0-9-]{0,61}[A-Z0-9])?\.   from position i
LabelDotEnds(v, i) ==
    {j \in (i + 2)..(Len(v) + 1) :
        /\ j - i - 1 <= 63
        /\ v[j - 1] = "."
        /\ v[i] \in AlphaNumIgnoreCase
        /\ v[j - 2] \in AlphaNumIgnoreCase
        /\ \A k \in (i + 1)..(j - 3) : v[k] \in AlphaNumIgnoreCase \cup {"-"}}

\* (?: label \.)+ : the positions reached from S by one or more labels
RECURSIVE LabelsEnds(_, _)
LabelsEnds(v, S) ==
    LET next == UNION {LabelDotEnds(v, i) : i \in S}
    IN  IF next = {} THEN {} ELSE next \cup LabelsEnds(v, next)

\* [A-Z]{2,6}\.?   from position i
TldEnds(v, i) ==
    LET plain == {j \in (i + 2)..(i + 6) :
                    /\ j <= Len(v) + 1
                    /\ \A k \in i..(j - 1) : v[k] \in LettersIgnoreCase}
    IN  plain \cup {j + 1 : j \in {q \in plain : q <= Len(v) /\ v[q] = "."}}

\* \d{1,3}   from position i
DigitsEnds(v, i) ==
    {j \in (i + 1)..(i + 3) :
        /\ j <= Len(v) + 1
        /\ \A k \in i..(j - 1) : v[k] \in DecimalDigits}

\* a literal dot at each position of S
DotEnds(v, S) == {i + 1 : i \in {q \in S : q <= Len(v) /\ v[q] = "."}}

\* \d{1,3}\.\d{1,3}\.\d{1,3}\.\d{1,3}   from position i
IpEnds(v, i) ==
    LET d1 == DigitsEnds(v, i)
        d2 == UNION {DigitsEnds(v, q) : q \in DotEnds(v, d1)}
        d3 == UNION {DigitsEnds(v, q) : q \in DotEnds(v, d2)}
    IN  UNION {DigitsEnds(v, q) : q \in DotEnds(v, d3)}

\* domain | localhost | ip   from position i
HostEnds(v, i) ==
    (UNION {TldEnds(v, q) : q \in LabelsEnds(v, {i})})
      \cup (IF MatchLit(v, i, LocalhostLit) THEN {i + 9} ELSE {})
      \cup IpEnds(v, i)

\* \d+ from position i
RECURSIVE DigitRunEnds(_, _)
DigitRunEnds(v, i) ==
    IF i <= Len(v) /\ v[i] \in DecimalDigits
    THEN {i + 1} \cup DigitRunEnds(v, i + 1)
    ELSE {}

\* (?::\d+)?   from position i
PortEnds(v, i) ==
    {i} \cup (IF i <= Len(v) /\ v[i] = ":" THEN DigitRunEnds(v, i + 1) ELSE {})

\* $ without re.MULTILINE: the end, or just before a final newline
DollarAt(v) ==
    {Len(v) + 1} \cup (IF v # <<>> /\ v[Len(v)] = "\n" THEN {Len(v)} ELSE {})

\* (?:/?|[/?]\S+)$   from position i
TailOk(v, i) ==
    \E e \in DollarAt(v) :
        \/ e = i
        \/ e = i + 1 /\ v[i] = "/"
        \/ /\ e >= i + 2
           /\ v[i] \in {"/", "?"}
           /\ \A k \in (i + 1)..(e - 1) : v[k] \notin Whitespace

\* url_pattern.match(v)
UrlPatternMatch(v) ==
    \E s \in SchemeEnds(v) :
        \E h \in HostEnds(v, s) :
            \E p \in PortEnds(v, h) : TailOk(v, p)

\* AddProtocol with the wrong scheme put in front
AddProtocolHttp(v) ==
    IF StartsWith(v, HttpPrefix) \/ StartsWith(v, HttpsPrefix)
    THEN v
    ELSE HttpPrefix \o v

\* lines 39-40: add the protocol if missing
AddProtocol(v) ==
    IF StartsWith(v, HttpPrefix) \/ StartsWith(v, HttpsPrefix)
    THEN v
    ELSE HttpsPrefix \o v

\* validate_url: [ok, url]; ok = FALSE is the ValueError
validate_url(v) ==
    LET w == AddProtocol(v)
    IN  [ok |-> UrlPatternMatch(w), url |-> w]

\* re.match(r'^[a-zA-Z0-9_-]+$', v)
CodePatternMatch(v) ==
    \E e \in DollarAt(v) :
        /\ e >= 2
        /\ \A k \in 1..(e - 1) : v[k] \in AlphaNum \cup {"_", "-"}

MinCodeLen == 3

MaxCodeLen == 20

\* validate_custom_code: TRUE when no ValueError is raised
validate_custom_code(has, v) ==
    \/ ~has
    \/ /\ ~(Len(v) < MinCodeLen \/ Len(v) > MaxCodeLen)
       /\ CodePatternMatch(v)

MaxBulkUrls == 50

\* validate_urls with the cap off by one
validate_urls_below_cap(urls) ==
    /\ ~(Len(urls) >= MaxBulkUrls)
    /\ ~(Len(urls) = 0)

\* BulkURLShortenRequest.validate_urls: TRUE when no ValueError is raised
validate_urls(urls) ==
    /\ ~(Len(urls) > MaxBulkUrls)
    /\ ~(Len(urls) = 0)


(***************************************************************************)
(* Bounds of the model                                                     *)
(***************************************************************************)
NumProcs == 2

MaxRequests == 3

MaxBulkLen == 2

MaxLimit == 2

MaxRecords == 3

MaxOtherInserts == 1

(***************************************************************************)
(* Inputs: the strings requests are made of                                *)
(***************************************************************************)
UrlGoogle == <<"h","t","t","p","s",":","/","/","g","o","o","g","l","e",".","c","o","m">>

UrlExample == <<"e","x","a","m","p","l","e",".","c","o","m">>

UrlPadded == <<" ","e","x","a","m","p","l","e",".","c","o","m"," ">>

UrlNotAUrl == <<"n","o","t","-","a","-","u","r","l">>

CodeAlias == <<"a","b","c">>

CodeTooShort == <<"a","b">>

CodeHex == <<"d","e","a","d","b","e","e","f">>

CodeMixed == <<"a","B","3","d","E","6","g","H">>

CodeUnknown == <<"n","o","n","e","x","i","s","t","e","n","t","1","2","3">>

BackendUrl == <<"h","t","t","p",":","/","/","l","o","c","a","l","h","o","s","t",":","8","0","0","1">>

RedirectPath == <<"/","a","p","i","/","r","/">>

Urls == {UrlGoogle, UrlExample, UrlNotAUrl}

BulkUrls == {UrlPadded, UrlNotAUrl}

CodeInputs == {CodeAlias, CodeTooShort}

SampleCodes == {CodeHex, CodeMixed}

HexDigits == Digits \cup {"a", "b", "c", "d", "e", "f"}

CodeLength == 8

max_attempts == 10

DefaultLimit == 50

\* generate_short_code(length): the strings of `length` letters and digits
generate_short_code(length) ==
    {c \in SampleCodes :
        Len(c) = length /\ \A k \in 1..Len(c) : c[k] \in AlphaNum}

\* str(uuid.uuid4())[:length]: `length` lower-case hexadecimal digits
uuid_prefix(length) ==
    {c \in SampleCodes :
        Len(c) = length /\ \A k \in 1..Len(c) : c[k] \in HexDigits}

RedirectCodes == SampleCodes \cup {CodeAlias, CodeUnknown}

\* the short lists, and a list at the cap and one over it
BulkInputs ==
    UNION {[1..n -> BulkUrls] : n \in 0..MaxBulkLen}
      \cup {[i \in 1..n |-> UrlNotAUrl] : n \in {MaxBulkUrls, MaxBulkUrls + 1}}

Limits == 0..MaxLimit \cup {DefaultLimit}

\* the validator's result for every url a request of the model carries
Validated ==
    [u \in Urls \cup {Strip(u) : u \in BulkUrls} |-> validate_url(u)]

Procs == 1..NumProcs

(***************************************************************************)
(* State                                                                   *)
(***************************************************************************)
VARIABLES
    db,         \* db.url_mappings: the records, in insertion order
    procs,      \* per request slot: where its handler is, and its locals
    out,        \* the last response sent, with the request it answers
    redirects,  \* per short code: the number of 302 responses sent
    sent        \* the number of requests received

vars == <<db, procs, out, redirects, sent>>

NoReq ==
    [op |-> "none", url |-> <<>>, has_code |-> FALSE, custom_code |-> <<>>,
     urls |-> <<>>, limit |-> 0, short_code |-> <<>>]

Idle ==
    [pc |-> "idle", req |-> NoReq, code |-> <<>>, via |-> "", attempt |-> 0,
     time |-> 0, idx |-> 0, results |-> <<>>, errors |-> <<>>, found |-> <<>>]

NoExc == [kind |-> "", status |-> 0, detail |-> "", arg |-> <<>>]

NoOut ==
    [req |-> NoReq, status |-> 0, detail |-> "", body |-> <<>>,
     total_processed |-> 0, errors |-> <<>>, location |-> <<>>, exc |-> NoExc]

Init ==
    /\ db = <<>>
    /\ procs = [p \in Procs |-> Idle]
    /\ out = NoOut
    /\ redirects = [c \in RedirectCodes |-> 0]
    /\ sent = 0

(***************************************************************************)
(* Exceptions and the except clauses of the handlers                       *)
(***************************************************************************)
\* line 117; arg is the alias the f-string puts in the detail
AlreadyTaken(code) ==
    [kind |-> "HTTPException", status |-> 400,
     detail |-> "Custom code '{request.custom_code}' is already taken",
     arg |-> code]

\* line 197
NotFound ==
    [kind |-> "HTTPException", status |-> 404, detail |-> "Short URL not found",
     arg |-> <<>>]

\* a failing find_one, insert_one, update_one or find
StoreError ==
    [kind |-> "PyMongoError", status |-> 0, detail |-> "store operation failed",
     arg |-> <<>>]

\* line 52, as pydantic raises it
InvalidUrl ==
    [kind |-> "ValidationError", status |-> 0, detail |-> "Invalid URL format",
     arg |-> <<>>]

\* a request FastAPI rejects before the handler runs
RequestInvalid ==
    [kind |-> "RequestValidationError", status |-> 422,
     detail |-> "validation error", arg |-> <<>>]

InternalError(e) ==
    [status |-> 500, detail |-> "Internal server error", exc |-> e]

\* shorten_url, lines 137-141
shorten_except(e) ==
    IF e.kind = "ValueError"
    THEN [status |-> 400, detail |-> e.detail, exc |-> e]
    ELSE InternalError(e)

\* get_urls, lines 184-186
get_urls_except(e) == InternalError(e)

\* redirect_except without `except HTTPException: raise`
redirect_except_generic(e) == InternalError(e)

\* redirect_to_url, lines 208-212
redirect_except(e) ==
    IF e.kind = "HTTPException"
    THEN [status |-> e.status, detail |-> e.detail, exc |-> e]
    ELSE InternalError(e)

\* bulk_error with the 0-based index
bulk_error_zero_based(idx, url, e) ==
    [index |-> idx, url |-> url, reason |-> e.detail]

\* shorten_urls_bulk, line 170
bulk_error(idx, url, e) ==
    [index |-> idx + 1, url |-> url, reason |-> e.detail]

(***************************************************************************)
(* The store                                                               *)
(***************************************************************************)
\* Matching with the filter on the wrong field
MatchingShortUrl(database, code) ==
    {i \in 1..Len(database) : database[i].short_url = code}

Matching(database, code) ==
    {i \in 1..Len(database) : database[i].short_code = code}

\* find_one({"short_code": code}): the first match in natural order
FindOne(database, code) ==
    LET m == Matching(database, code)
    IN  database[CHOOSE i \in m : \A j \in m : i <= j]

\* check_code_exists that never finds a record
check_code_exists_never(database, code) == FALSE

check_code_exists(database, code) == Matching(database, code) # {}

\* IncClick with {"$inc": {"click_count": 2}}
IncClickTwice(database, code) ==
    LET m == Matching(database, code)
        first == CHOOSE i \in m : \A j \in m : i <= j
    IN  IF m = {} THEN database
        ELSE [database EXCEPT ![first].click_count = @ + 2]

\* IncClick as update_many: every match is incremented
IncClickMany(database, code) ==
    [i \in 1..Len(database) |->
        IF database[i].short_code = code
        THEN [database[i] EXCEPT !.click_count = @ + 1]
        ELSE database[i]]

\* IncClick as a write of 1 instead of an increment
IncClickOverwrite(database, code) ==
    LET m == Matching(database, code)
        first == CHOOSE i \in m : \A j \in m : i <= j
    IN  IF m = {} THEN database
        ELSE [database EXCEPT ![first].click_count = 1]

\* update_one({"short_code": code}, {"$inc": {"click_count": 1}})
IncClick(database, code) ==
    LET m == Matching(database, code)
        first == CHOOSE i \in m : \A j \in m : i <= j
    IN  IF m = {} THEN database
        ELSE [database EXCEPT ![first].click_count = @ + 1]

\* the clock readings still held: the created_at of the records, and the
\* readings of the requests that have built their record (lines 125, 158)
\* and not yet inserted it
Readings(database, ps) ==
    {database[i].created_at : i \in 1..Len(database)}
      \cup {ps[p].time : p \in {q \in DOMAIN ps : ps[q].pc = "insert"}}

\* datetime.utcnow() as the store keeps it: a reading is not earlier than
\* the readings before it, and two readings can be the same instant
utcnow(database, ps) ==
    LET r == Readings(database, ps)
        last == CHOOSE t \in r : \A u \in r : u <= t
    IN  IF r = {} THEN {0} ELSE {last, last + 1}

\* SortedFrom in ascending order
RECURSIVE SortedAscending(_, _)
SortedAscending(database, S) ==
    IF S = {} THEN {<<>>}
    ELSE LET oldest == {i \in S : \A j \in S :
                           database[i].created_at <= database[j].created_at}
         IN  UNION {{<<database[i]>> \o rest :
                        rest \in SortedAscending(database, S \ {i})} : i \in oldest}

\* find().sort("created_at", -1): the order among equal keys is the store's
RECURSIVE SortedFrom(_, _)
SortedFrom(database, S) ==
    IF S = {} THEN {<<>>}
    ELSE LET newest == {i \in S : \A j \in S :
                           database[i].created_at >= database[j].created_at}
         IN  UNION {{<<database[i]>> \o rest :
                        rest \in SortedFrom(database, S \ {i})} : i \in newest}

SortedListings(database) == SortedFrom(database, 1..Len(database))

\* .limit(limit).to_list(limit)
Take(s, limit) == SubSeq(s, 1, IF limit < Len(s) THEN limit ELSE Len(s))

(***************************************************************************)
(* Records and codes                                                       *)
(***************************************************************************)
\* URLShortenResponse with custom left at its default
URLShortenResponseDefaultCustom(database, url, code, custom, time) ==
    [id |-> Len(database) + 1,
     original_url |-> url,
     short_code |-> code,
     short_url |-> BackendUrl \o RedirectPath \o code,
     custom |-> FALSE,
     created_at |-> time,
     click_count |-> 0]

\* URLShortenResponse(original_url, short_code, short_url, custom)
URLShortenResponse(database, url, code, custom, time) ==
    [id |-> Len(database) + 1,
     original_url |-> url,
     short_code |-> code,
     short_url |-> BackendUrl \o RedirectPath \o code,
     custom |-> custom,
     created_at |-> time,
     click_count |-> 0]

\* create_unique_short_code without the existence check
create_short_code_unchecked(database, length, attempt) ==
    {[code |-> c, via |-> "generated"] : c \in generate_short_code(length)}

\* create_unique_short_code, iteration number attempt (from 0) of its loop,
\* from the draw of a candidate to the answer of find_one: the candidate is
\* returned (line 104), the loop goes on ("retry"), or this was the last
\* iteration and the uuid prefix is returned (line 107)
create_unique_short_code(database, length, attempt) ==
    {[code |-> c, via |-> "generated"] :
         c \in {g \in generate_short_code(length) :
                  ~check_code_exists(database, g)}}
      \cup (IF \E g \in generate_short_code(length) :
                  check_code_exists(database, g)
            THEN IF attempt + 1 < max_attempts
                 THEN {[code |-> <<>>, via |-> "retry"]}
                 ELSE {[code |-> c, via |-> "fallback"] :
                          c \in uuid_prefix(length)}
            ELSE {})

Respond(p, req, r, body, errors, location) ==
    /\ out' = [req |-> req, status |-> r.status, detail |-> r.detail,
               body |-> body, total_processed |-> Len(body),
               errors |-> errors, location |-> location, exc |-> r.exc]
    /\ procs' = [procs EXCEPT ![p] = Idle]

Ok(status) == [status |-> status, detail |-> "", exc |-> NoExc]

Unprocessable == [status |-> 422, detail |-> RequestInvalid.detail, exc |-> RequestInvalid]

\* the records the requests in flight can still insert
Pending(ps) ==
    Cardinality({<<p, k>> \in (DOMAIN ps) \X (1..MaxBulkUrls) :
        \/ ps[p].req.op = "shorten" /\ k = 1
        \/ ps[p].req.op = "bulk" /\ k <= Len(ps[p].req.urls) - ps[p].idx})

\* a request that can insert n records is sent only while the collection
\* stays within the bound of the model
Room(n) == Len(db) + Pending(procs) + n <= MaxRecords

(***************************************************************************)
(* POST /shorten                                                           *)
(***************************************************************************)
\* request.url after the validator ran
RequestUrl(req) == Validated[req.url].url

\* line 115: `if request.custom_code`
UsesAlias(req) == req.has_code /\ req.custom_code # <<>>

ShortenFail(p, e) ==
    /\ Respond(p, procs[p].req, shorten_except(e), <<>>, <<>>, <<>>)
    /\ UNCHANGED <<db, redirects>>

\* the request is parsed and validated; the handler starts
ShortenRequest(p) ==
    /\ procs[p].pc = "idle"
    /\ sent < MaxRequests
    /\ Room(1)
    /\ sent' = sent + 1
    /\ \E url \in Urls, has \in BOOLEAN, cc \in CodeInputs \cup {<<>>} :
        /\ has <=> cc # <<>>
        /\ LET req == [NoReq EXCEPT !.op = "shorten", !.url = url,
                                    !.has_code = has, !.custom_code = cc]
           IN  IF Validated[url].ok /\ validate_custom_code(has, cc)
               THEN /\ procs' = [procs EXCEPT ![p] =
                        [Idle EXCEPT !.req = req,
                                     !.pc = IF UsesAlias(req)
                                            THEN "check_alias" ELSE "generate"]]
                    /\ UNCHANGED out
               ELSE Respond(p, req, Unprocessable, <<>>, <<>>, <<>>)
    /\ UNCHANGED <<db, redirects>>

\* lines 115-119: check_code_exists(request.custom_code); when the alias is
\* free the record is built (125-130), which reads the clock
ShortenCheckAlias(p) ==
    /\ UNCHANGED sent
    /\ procs[p].pc = "check_alias"
    /\ \E ok \in BOOLEAN :
        IF ~ok THEN ShortenFail(p, StoreError)
        ELSE IF check_code_exists(db, procs[p].req.custom_code)
        THEN ShortenFail(p, AlreadyTaken(procs[p].req.custom_code))
        ELSE /\ \E time \in utcnow(db, procs) :
                   procs' = [procs EXCEPT ![p].pc = "insert",
                                          ![p].code = procs[p].req.custom_code,
                                          ![p].via = "alias",
                                          ![p].time = time]
             /\ UNCHANGED <<db, out, redirects>>

\* line 121: one iteration of create_unique_short_code(); when it returns
\* a code the record is built (125-130), which reads the clock
ShortenGenerate(p) ==
    /\ UNCHANGED sent
    /\ procs[p].pc = "generate"
    /\ procs[p].req.op = "shorten"
    /\ \/ ShortenFail(p, StoreError)
       \/ \E r \in create_unique_short_code(db, CodeLength, procs[p].attempt) :
            /\ IF r.via = "retry"
               THEN procs' = [procs EXCEPT ![p].attempt = @ + 1]
               ELSE \E time \in utcnow(db, procs) :
                      procs' = [procs EXCEPT ![p].pc = "insert",
                                             ![p].code = r.code,
                                             ![p].via = r.via,
                                             ![p].attempt = 0,
                                             ![p].time = time]
            /\ UNCHANGED <<db, out, redirects>>

\* lines 133-135: insert_one of the record built, return it
ShortenInsert(p) ==
    /\ UNCHANGED sent
    /\ procs[p].pc = "insert"
    /\ procs[p].req.op = "shorten"
    /\ \/ ShortenFail(p, StoreError)
       \/ LET m == URLShortenResponse(db, RequestUrl(procs[p].req),
                        procs[p].code, procs[p].via = "alias", procs[p].time)
          IN  /\ db' = Append(db, m)
              /\ Respond(p, procs[p].req, Ok(200), <<m>>, <<>>, <<>>)
              /\ UNCHANGED redirects

(***************************************************************************)
(* POST /shorten-bulk                                                      *)
(***************************************************************************)
\* lines 149-152 and 169-170: from entry idx (0-based) on, every entry that
\* fails validation adds its error; stops at the first valid entry
RECURSIVE BulkSkip(_, _, _)
BulkSkip(urls, idx, errors) ==
    IF idx >= Len(urls) THEN [idx |-> idx, errors |-> errors]
    ELSE IF Validated[Strip(urls[idx + 1])].ok
         THEN [idx |-> idx, errors |-> errors]
         ELSE BulkSkip(urls, idx + 1,
                       Append(errors, bulk_error(idx, urls[idx + 1], InvalidUrl)))

\* the loop goes on with entry idx, or the response is returned (172-176)
BulkContinue(p, req, idx, results, errors) ==
    LET s == BulkSkip(req.urls, idx, errors)
    IN  IF s.idx >= Len(req.urls)
        THEN Respond(p, req, Ok(200), results, s.errors, <<>>)
        ELSE /\ procs' = [procs EXCEPT ![p] =
                    [Idle EXCEPT !.pc = "generate", !.req = req, !.idx = s.idx,
                                 !.results = results, !.errors = s.errors]]
             /\ UNCHANGED out

\* the entry being processed raised e (169-170)
BulkEntryFails(p, e) ==
    LET st == procs[p]
    IN  BulkContinue(p, st.req, st.idx + 1, st.results,
            Append(st.errors, bulk_error(st.idx, st.req.urls[st.idx + 1], e)))

BulkRequest(p) ==
    /\ procs[p].pc = "idle"
    /\ sent < MaxRequests
    /\ sent' = sent + 1
    /\ \E urls \in {u \in BulkInputs : Len(u) > MaxBulkLen \/ Room(Len(u))} :
        LET req == [NoReq EXCEPT !.op = "bulk", !.urls = urls]
        IN  IF validate_urls(urls)
            THEN BulkContinue(p, req, 0, <<>>, <<>>)
            ELSE Respond(p, req, Unprocessable, <<>>, <<>>, <<>>)
    /\ UNCHANGED <<db, redirects>>

\* line 155: one iteration of create_unique_short_code(); when it returns
\* a code the record is built (158-163), which reads the clock; when its
\* find_one raises, the entry's error is added (169-170) and the loop goes
\* on, or the response is returned (172-176)
BulkGenerate(p) ==
    /\ UNCHANGED sent
    /\ procs[p].pc = "generate"
    /\ procs[p].req.op = "bulk"
    /\ \/ BulkEntryFails(p, StoreError)
       \/ \E r \in create_unique_short_code(db, CodeLength, procs[p].attempt) :
            /\ IF r.via = "retry"
               THEN procs' = [procs EXCEPT ![p].attempt = @ + 1]
               ELSE \E time \in utcnow(db, procs) :
                      procs' = [procs EXCEPT ![p].pc = "insert",
                                             ![p].code = r.code,
                                             ![p].via = r.via,
                                             ![p].attempt = 0,
                                             ![p].time = time]
            /\ UNCHANGED out
    /\ UNCHANGED <<db, redirects>>

\* lines 166-167: insert_one of the record built, append it to results
BulkInsert(p) ==
    /\ UNCHANGED sent
    /\ procs[p].pc = "insert"
    /\ procs[p].req.op = "bulk"
    /\ LET st == procs[p]
       IN  \/ /\ BulkEntryFails(p, StoreError)
              /\ UNCHANGED db
           \/ LET m == URLShortenResponse(db,
                            Validated[Strip(st.req.urls[st.idx + 1])].url,
                            st.code, FALSE, st.time)
              IN  /\ db' = Append(db, m)
                  /\ BulkContinue(p, st.req, st.idx + 1,
                                  Append(st.results, m), st.errors)
    /\ UNCHANGED redirects

(***************************************************************************)
(* GET /urls                                                               *)
(***************************************************************************)
get_urls(p) ==
    /\ procs[p].pc = "idle"
    /\ sent < MaxRequests
    /\ sent' = sent + 1
    /\ \E limit \in Limits :
        LET req == [NoReq EXCEPT !.op = "list", !.limit = limit]
        IN  \/ Respond(p, req, get_urls_except(StoreError), <<>>, <<>>, <<>>)
            \/ \E listing \in SortedListings(db) :
                 Respond(p, req, Ok(200), Take(listing, limit), <<>>, <<>>)
    /\ UNCHANGED <<db, redirects>>

(***************************************************************************)
(* GET /r/{short_code}                                                     *)
(***************************************************************************)
RedirectFail(p, req, e) ==
    /\ Respond(p, req, redirect_except(e), <<>>, <<>>, <<>>)
    /\ UNCHANGED <<db, redirects>>

\* lines 193-197: find_one
RedirectFind(p) ==
    /\ procs[p].pc = "idle"
    /\ sent < MaxRequests
    /\ sent' = sent + 1
    /\ \E code \in RedirectCodes :
        LET req == [NoReq EXCEPT !.op = "redirect", !.short_code = code]
        IN  \/ RedirectFail(p, req, StoreError)
            \/ /\ ~check_code_exists(db, code)
               /\ RedirectFail(p, req, NotFound)
            \/ /\ check_code_exists(db, code)
               /\ procs' = [procs EXCEPT ![p] =
                      [Idle EXCEPT !.pc = "update", !.req = req,
                                   !.found = FindOne(db, code).original_url]]
               /\ UNCHANGED <<db, out, redirects>>

\* lines 199-206: update_one, then the redirect
RedirectUpdate(p) ==
    /\ UNCHANGED sent
    /\ procs[p].pc = "update"
    /\ LET st == procs[p]
       IN  \/ RedirectFail(p, st.req, StoreError)
           \/ /\ db' = IncClick(db, st.req.short_code)
              /\ redirects' = [redirects EXCEPT ![st.req.short_code] = @ + 1]
              /\ Respond(p, st.req, Ok(302), <<>>, <<>>, st.found)

(***************************************************************************)
(* The system                                                              *)
(***************************************************************************)
Next ==
    \/ \E p \in Procs : ShortenRequest(p)
    \/ \E p \in Procs : ShortenCheckAlias(p)
    \/ \E p \in Procs : ShortenGenerate(p)
    \/ \E p \in Procs : ShortenInsert(p)
    \/ \E p \in Procs : BulkRequest(p)
    \/ \E p \in Procs : BulkGenerate(p)
    \/ \E p \in Procs : BulkInsert(p)
    \/ \E p \in Procs : get_urls(p)
    \/ \E p \in Procs : RedirectFind(p)
    \/ \E p \in Procs : RedirectUpdate(p)

Spec == Init /\ [][Next]_vars

(***************************************************************************)
(* The requests when allocations do not overlap                            *)
(***************************************************************************)
\* no other request is between its existence check (lines 116, 103) and
\* its insert_one (lines 133, 166)
Exclusive(p) == \A q \in Procs \ {p} : procs[q].pc # "insert"

\* the call of create_unique_short_code in this step returned at line 104
LoopReturned(p) == procs'[p].via # "fallback"

SeqNext ==
    \/ \E p \in Procs : Exclusive(p) /\ ShortenRequest(p)
    \/ \E p \in Procs : Exclusive(p) /\ ShortenCheckAlias(p)
    \/ \E p \in Procs : Exclusive(p) /\ ShortenGenerate(p) /\ LoopReturned(p)
    \/ \E p \in Procs : Exclusive(p) /\ ShortenInsert(p)
    \/ \E p \in Procs : Exclusive(p) /\ BulkRequest(p)
    \/ \E p \in Procs : Exclusive(p) /\ BulkGenerate(p) /\ LoopReturned(p)
    \/ \E p \in Procs : Exclusive(p) /\ BulkInsert(p)
    \/ \E p \in Procs : Exclusive(p) /\ get_urls(p)
    \/ \E p \in Procs : Exclusive(p) /\ RedirectFind(p)
    \/ \E p \in Procs : Exclusive(p) /\ RedirectUpdate(p)

SeqSpec == Init /\ [][SeqNext]_vars

(***************************************************************************)
(* create_unique_short_code, one loop iteration at a time                  *)
(***************************************************************************)
\* a collection holding one record per code of the list, in that order,
\* each created later than the one before; a code that is not a generated
\* one was an alias (line 119)
RECURSIVE CollectionOf(_)
CollectionOf(codes) ==
    IF codes = <<>> THEN <<>>
    ELSE LET rest == CollectionOf(SubSeq(codes, 1, Len(codes) - 1))
             code == codes[Len(codes)]
         IN  Append(rest, URLShortenResponse(rest, Validated[UrlGoogle].url,
                              code,
                              code \notin generate_short_code(CodeLength),
                              Len(codes)))

\* the collections a call can start on
Collections ==
    {CollectionOf(codes) :
        codes \in {<<>>, <<CodeHex>>, <<CodeMixed>>, <<CodeAlias>>}}

\* every request slot is inside a call of create_unique_short_code()
CreateInit ==
    /\ db \in Collections
    /\ procs = [p \in Procs |-> [Idle EXCEPT !.pc = "attempt"]]
    /\ out = NoOut
    /\ redirects = [c \in RedirectCodes |-> 0]
    /\ sent = 0

\* lines 101-102: the loop has an iteration left and draws a candidate;
\* idx is the number of iterations completed
CreateGenerate(p) ==
    /\ procs[p].pc = "attempt"
    /\ procs[p].idx < max_attempts
    /\ \E c \in generate_short_code(CodeLength) :
         procs' = [procs EXCEPT ![p].pc = "check", ![p].code = c]
    /\ UNCHANGED <<db, out, redirects, sent>>

\* CreateCheck as `while True`: a collision does not use up an attempt
CreateCheckUncounted(p) ==
    /\ procs[p].pc = "check"
    /\ \/ procs' = [procs EXCEPT ![p].pc = "raised"]
       \/ /\ ~check_code_exists(db, procs[p].code)
          /\ procs' = [procs EXCEPT ![p].pc = "returned",
                                    ![p].via = "generated",
                                    ![p].idx = @ + 1]
       \/ /\ check_code_exists(db, procs[p].code)
          /\ procs' = [procs EXCEPT ![p].pc = "attempt"]
    /\ UNCHANGED <<db, out, redirects, sent>>

\* lines 103-104: check_code_exists(code); the call returns the candidate,
\* goes to the next iteration, or is left by the exception of find_one
CreateCheck(p) ==
    /\ procs[p].pc = "check"
    /\ \/ procs' = [procs EXCEPT ![p].pc = "raised"]
       \/ /\ ~check_code_exists(db, procs[p].code)
          /\ procs' = [procs EXCEPT ![p].pc = "returned",
                                    ![p].via = "generated",
                                    ![p].idx = @ + 1]
       \/ /\ check_code_exists(db, procs[p].code)
          /\ procs' = [procs EXCEPT ![p].pc = "attempt", ![p].idx = @ + 1]
    /\ UNCHANGED <<db, out, redirects, sent>>

\* line 107: the loop is over, the uuid prefix is returned unchecked
CreateFallback(p) ==
    /\ procs[p].pc = "attempt"
    /\ procs[p].idx >= max_attempts
    /\ \E c \in uuid_prefix(CodeLength) :
         procs' = [procs EXCEPT ![p].pc = "returned", ![p].code = c,
                                ![p].via = "fallback"]
    /\ UNCHANGED <<db, out, redirects, sent>>

\* lines 133, 166: the insert_one of some other request, whose record was
\* built before, with or after the records of the collection
CreateOtherInsert ==
    /\ sent < MaxOtherInserts
    /\ sent' = sent + 1
    /\ \E c \in SampleCodes, time \in 0..Len(db) + 1 :
         db' = Append(db, URLShortenResponse(db, Validated[UrlGoogle].url,
                              c, FALSE, time))
    /\ UNCHANGED <<procs, out, redirects>>

CreateRuns(p) == CreateGenerate(p) \/ CreateCheck(p) \/ CreateFallback(p)

CreateNext ==
    \/ \E p \in Procs : CreateGenerate(p)
    \/ \E p \in Procs : CreateCheck(p)
    \/ \E p \in Procs : CreateFallback(p)
    \/ CreateOtherInsert

\* a call that has started keeps running
CreateSpec ==
    CreateInit /\ [][CreateNext]_vars /\ \A p \in Procs : WF_vars(CreateRuns(p))

(***************************************************************************)
(* Vocabulary of the properties                                            *)
(***************************************************************************)
\* the records of the collection whose short_code is code
RecordsWith(code) == {i \in 1..Len(db) : db[i].short_code = code}

\* p's handler takes this step
Acts(p) == procs[p].pc # "idle" /\ procs'[p] # procs[p]

\* this step receives a request and answers it at once
AnsweredAtOnce(op) == sent' # sent /\ procs' = procs /\ out'.req.op = op

\* p's handler inserts a record in this step
Inserts(p) == procs[p].pc = "insert" /\ Acts(p) /\ Len(db') = Len(db) + 1

HasScheme(url) == StartsWith(url, HttpPrefix) \/ StartsWith(url, HttpsPrefix)

(***************************************************************************)
(* C1: under any interleaving of shorten and shorten-bulk requests no two  *)
(* records of the collection have the same short_code.                     *)
(***************************************************************************)
C1_UniqueShortCodes ==
    \A i, j \in 1..Len(db) : i # j => db[i].short_code # db[j].short_code

(***************************************************************************)
(* C2: a shorten request whose alias is the short_code of a record of the  *)
(* collection is answered with the conflict error, status 400, and neither *)
(* with 422 nor with 500.                                                  *)
(***************************************************************************)
C2_AliasConflictIs400 ==
    (out.req.op = "shorten" /\ out.exc = AlreadyTaken(out.req.custom_code))
        => out.status = 400

(***************************************************************************)
(* C3: when the existence check of a shorten request finds its alias in    *)
(* the collection, the request ends there and the collection is unchanged. *)
(***************************************************************************)
C3_ConflictStep(p) ==
    (/\ procs[p].pc = "check_alias"
     /\ RecordsWith(procs[p].req.custom_code) # {}
     /\ Acts(p))
    => (db' = db /\ procs'[p].pc = "idle")

C3_ConflictInsertsNothing == [][\A p \in Procs : C3_ConflictStep(p)]_vars

C3_Witness ==
    /\ out.req.op = "shorten"
    /\ out.exc = AlreadyTaken(out.req.custom_code)
    /\ Cardinality(RecordsWith(out.req.custom_code)) = 1

(***************************************************************************)
(* C4: a 302 response carries the stored original_url of the record found, *)
(* and the click_count of that record is the number of 302 responses sent  *)
(* for its short_code, also when resolutions overlap.                      *)
(***************************************************************************)
C4_ClicksCountResolutions ==
    /\ out.status = 302 =>
         /\ RecordsWith(out.req.short_code) # {}
         /\ \E i \in RecordsWith(out.req.short_code) :
              /\ \A j \in RecordsWith(out.req.short_code) : i <= j
              /\ out.location = db[i].original_url
    /\ \A c \in RedirectCodes :
         IF RecordsWith(c) = {} THEN redirects[c] = 0
         ELSE \E i \in RecordsWith(c) :
                /\ \A j \in RecordsWith(c) : i <= j
                /\ db[i].click_count = redirects[c]
                /\ \A j \in RecordsWith(c) \ {i} : db[j].click_count = 0

C4_Witness ==
    /\ out.status = 302
    /\ \E i \in 1..Len(db) :
         /\ db[i].short_code = out.req.short_code
         /\ db[i].click_count = 2
         /\ redirects[db[i].short_code] = 2

(***************************************************************************)
(* C5: resolving a short_code no record has is answered 404 and changes no *)
(* record (when find_one itself answers).                                  *)
(***************************************************************************)
C5_UnknownStep ==
    (/\ AnsweredAtOnce("redirect")
     /\ RecordsWith(out'.req.short_code) = {}
     /\ out'.exc # StoreError)
    => (out'.status = 404 /\ db' = db)

C5_UnknownCodeIs404 == [][C5_UnknownStep]_vars

C5_Witness ==
    /\ out.req.op = "redirect"
    /\ out.status = 404
    /\ RecordsWith(out.req.short_code) = {}
    /\ db # <<>>

(***************************************************************************)
(* C6: a shorten-bulk request with no url or with more than 50 urls is     *)
(* answered 422 and inserts nothing; one with 1 to 50 urls is accepted.    *)
(***************************************************************************)
C6_BulkStep(p) ==
    /\ AnsweredAtOnce("bulk") =>
         LET n == Len(out'.req.urls)
         IN  IF n = 0 \/ n > 50
             THEN out'.status = 422 /\ out'.body = <<>> /\ db' = db
             ELSE out'.status = 200
    /\ (procs[p].pc = "idle" /\ procs'[p].req.op = "bulk") =>
         Len(procs'[p].req.urls) \in 1..50

C6_BulkSizeChecked == [][\A p \in Procs : C6_BulkStep(p)]_vars

C6_Witness ==
    /\ out.req.op = "bulk"
    /\ Len(out.req.urls) > 50
    /\ out.status = 422
    /\ db # <<>>

(***************************************************************************)
(* C7: a shorten-bulk request processes its entries in input order and     *)
(* each on its own: an entry that fails adds one error with its 1-based    *)
(* position and its url, the entries after it are still processed and the  *)
(* results before it are kept; on return results and errors together       *)
(* account for every input, total_processed is the number of results, and  *)
(* the records the request inserted are exactly its results.               *)
(***************************************************************************)
\* results and errors after the first `done` entries of urls
C7_Shape(urls, done, results, errors) ==
    /\ Len(results) + Len(errors) = done
    /\ \A k \in 1..Len(errors) :
         /\ errors[k].index \in 1..done
         /\ errors[k].url = urls[errors[k].index]
         /\ \A l \in 1..(k - 1) : errors[l].index < errors[k].index
    /\ LET failed == {errors[k].index : k \in 1..Len(errors)}
           passed == (1..done) \ failed
       IN  \A k \in 1..Len(results) :
             LET pos == CHOOSE i \in passed :
                           Cardinality({j \in passed : j < i}) = k - 1
                 id == results[k].id
             IN  /\ results[k].original_url = AddProtocol(Strip(urls[pos]))
                 /\ \A l \in 1..(k - 1) : results[l].id < id
                 /\ id \in 1..Len(db)
                 /\ db[id] = [results[k] EXCEPT !.click_count = db[id].click_count]

C7_Lists ==
    /\ (out.req.op = "bulk" /\ out.status = 200) =>
         /\ C7_Shape(out.req.urls, Len(out.req.urls), out.body, out.errors)
         /\ out.total_processed = Len(out.body)
    /\ \A p \in Procs :
         procs[p].req.op = "bulk" =>
            C7_Shape(procs[p].req.urls, procs[p].idx,
                     procs[p].results, procs[p].errors)

C7_Step(p) ==
    (procs[p].req.op = "bulk" /\ Acts(p)) =>
        LET results == IF procs'[p].pc = "idle" THEN out'.body
                       ELSE procs'[p].results
            errors == IF procs'[p].pc = "idle" THEN out'.errors
                      ELSE procs'[p].errors
        IN  /\ Len(errors) >= Len(procs[p].errors)
            /\ SubSeq(errors, 1, Len(procs[p].errors)) = procs[p].errors
            /\ \/ db' = db /\ results = procs[p].results
               \/ /\ Len(db') = Len(db) + 1
                  /\ SubSeq(db', 1, Len(db)) = db
                  /\ results = Append(procs[p].results, db'[Len(db')])

C7_BulkEntriesIndependent ==
    []C7_Lists /\ [][\A p \in Procs : C7_Step(p)]_vars

C7_Witness ==
    /\ out.req.op = "bulk"
    /\ out.status = 200
    /\ Len(out.req.urls) = 2
    /\ Len(out.errors) = 1
    /\ out.errors[1].index = 1
    /\ Len(out.body) = 1
    /\ out.total_processed = 1

(***************************************************************************)
(* C8: a listing with limit N returns min(N, size) records of the          *)
(* collection, none of them older than a record it leaves out, in          *)
(* non-increasing order of created_at, and changes no record.  (Records    *)
(* created in the same instant have equal created_at, so the order is not  *)
(* always strict.)                                                         *)
(***************************************************************************)
C8_Recent(body) ==
    /\ Len(body) = IF out'.req.limit < Len(db) THEN out'.req.limit ELSE Len(db)
    /\ \A k \in 1..Len(body) :
         /\ body[k].id \in 1..Len(db)
         /\ db[body[k].id] = body[k]
         /\ \A l \in 1..(k - 1) : body[l].id # body[k].id
    /\ \A i \in 1..Len(db) :
         (\A k \in 1..Len(body) : body[k].id # i) =>
            \A k \in 1..Len(body) : db[i].created_at <= body[k].created_at
    /\ db' = db

C8_ListingStep ==
    (AnsweredAtOnce("list") /\ out'.status = 200) =>
        /\ C8_Recent(out'.body)
        /\ \A k, l \in 1..Len(out'.body) :
             k < l => out'.body[k].created_at >= out'.body[l].created_at

C8_ListingNewestFirst == [][C8_ListingStep]_vars

\* C8 as written: the listing is in strictly descending order of created_at
C8_StrictStep ==
    (AnsweredAtOnce("list") /\ out'.status = 200) =>
        /\ C8_Recent(out'.body)
        /\ \A k, l \in 1..Len(out'.body) :
             k < l => out'.body[k].created_at > out'.body[l].created_at

C8_ListingStrictlyDescending == [][C8_StrictStep]_vars

C8_Witness ==
    /\ out.req.op = "list"
    /\ out.status = 200
    /\ out.req.limit = 1
    /\ Len(out.body) = 1
    /\ Len(db) >= 2
    /\ \E i \in 1..Len(db) : db[i].created_at < out.body[1].created_at

(***************************************************************************)
(* C9: the original_url of every record begins with http:// or https://;   *)
(* a url given with one of them is stored as given, a valid url given      *)
(* without is stored with https:// in front.                               *)
(***************************************************************************)
C9_AllHaveScheme == \A i \in 1..Len(db) : HasScheme(db[i].original_url)

C9_Step(p) ==
    Inserts(p) =>
        LET given == IF procs[p].req.op = "shorten" THEN procs[p].req.url
                     ELSE Strip(procs[p].req.urls[procs[p].idx + 1])
        IN  db'[Len(db')].original_url =
                IF HasScheme(given) THEN given ELSE HttpsPrefix \o given

C9_StoredUrlHasScheme ==
    []C9_AllHaveScheme /\ [][\A p \in Procs : C9_Step(p)]_vars

C9_Witness ==
    \E i, j \in 1..Len(db) :
        /\ db[i].original_url = UrlGoogle
        /\ db[j].original_url = HttpsPrefix \o UrlExample

(***************************************************************************)
(* C10: a record is created with click_count 0; created by shorten with an *)
(* alias it has that alias as short_code and custom = TRUE; created by     *)
(* shorten without alias or by shorten-bulk it has the code                *)
(* create_unique_short_code returned and custom = FALSE.                   *)
(***************************************************************************)
C10_Step(p) ==
    Inserts(p) =>
        LET new == db'[Len(db')]
            req == procs[p].req
        IN  /\ new.click_count = 0
            /\ IF req.op = "shorten" /\ req.has_code
               THEN new.short_code = req.custom_code /\ new.custom = TRUE
               ELSE /\ new.custom = FALSE
                    /\ procs[p].via \in {"generated", "fallback"}
                    /\ new.short_code = procs[p].code
                    /\ Len(new.short_code) = 8
                    /\ \A k \in 1..8 : new.short_code[k] \in AlphaNum

C10_NewRecordFields == [][\A p \in Procs : C10_Step(p)]_vars

C10_Witness ==
    \E i, j \in 1..Len(db) :
        /\ db[i].custom /\ db[i].short_code = CodeAlias
        /\ ~db[j].custom /\ db[j].click_count = 0

(***************************************************************************)
(* C11: no step deletes a record or changes the id, original_url,          *)
(* short_code, short_url, custom or created_at of one; click_count changes *)
(* only in the update step of a resolution of that record's short_code,    *)
(* and one step changes at most one record.                                *)
(***************************************************************************)
C11_Step ==
    /\ Len(db') >= Len(db)
    /\ \A i \in 1..Len(db) :
         db'[i] = [db[i] EXCEPT !.click_count = db'[i].click_count]
    /\ LET changed == {i \in 1..Len(db) : db'[i] # db[i]}
       IN  /\ Cardinality(changed) <= 1
           /\ \A i \in changed :
                \E p \in Procs :
                   /\ procs[p].pc = "update"
                   /\ Acts(p)
                   /\ procs[p].req.short_code = db[i].short_code

C11_RecordsImmutable == [][C11_Step]_vars

C11_Witness ==
    /\ Len(db) = 2
    /\ db[1].short_code = db[2].short_code
    /\ db[1].click_count = 1
    /\ db[2].click_count = 0
    /\ out.status = 302

(***************************************************************************)
(* C12: a call of create_unique_short_code ends: it makes at most 10       *)
(* generate-and-check iterations, returns the first candidate its check    *)
(* finds absent from the collection, and after 10 colliding candidates     *)
(* returns the uuid prefix; the only other way out is the exception of a   *)
(* failing find_one, there is no state in which the call gives up.  What   *)
(* it returns is what the iteration of create_unique_short_code in the     *)
(* request handlers returns on the same collection.                        *)
(***************************************************************************)
C12_Bounded ==
    \A p \in Procs :
        /\ procs[p].idx \in 0..10
        /\ procs[p].pc \in {"attempt", "check", "returned", "raised"}
        /\ procs[p].pc = "returned" =>
             /\ Len(procs[p].code) = 8
             /\ procs[p].via = "generated" => procs[p].idx \in 1..10
             /\ procs[p].via = "fallback" => procs[p].idx = 10

C12_Step(p) ==
    /\ (procs[p].pc = "check" /\ procs'[p] # procs[p]
            /\ procs'[p].pc # "raised") =>
         /\ procs'[p].idx = procs[p].idx + 1
         /\ IF RecordsWith(procs[p].code) = {}
            THEN /\ procs'[p].pc = "returned"
                 /\ procs'[p].code = procs[p].code
                 /\ procs'[p].via = "generated"
            ELSE procs'[p].pc = "attempt"
    /\ (procs[p].pc = "attempt" /\ procs'[p] # procs[p]) =>
         IF procs[p].idx < 10
         THEN procs'[p].pc = "check" /\ procs'[p].idx = procs[p].idx
         ELSE procs'[p].pc = "returned" /\ procs'[p].via = "fallback"
    /\ (procs[p].pc # "returned" /\ procs'[p].pc = "returned") =>
         [code |-> procs'[p].code, via |-> procs'[p].via]
             \in create_unique_short_code(db, CodeLength,
                     IF procs'[p].via = "fallback" THEN 9 ELSE procs[p].idx)
    /\ procs[p].pc \in {"returned", "raised"} => procs'[p] = procs[p]

C12_Ends == \A p \in Procs : procs[p].pc \in {"returned", "raised"}

C12_CreateTerminates ==
    /\ []C12_Bounded
    /\ [][\A p \in Procs : C12_Step(p)]_vars
    /\ <>[]C12_Ends

C12_Witness ==
    /\ procs[1].pc = "returned" /\ procs[1].via = "fallback"
    /\ procs[2].pc = "returned" /\ procs[2].via = "generated"
    /\ procs[2].idx = 3

(***************************************************************************)
(* C13: the code create_unique_short_code returns after 10 colliding       *)
(* candidates, the first 8 characters of a fresh uuid, is the short_code   *)
(* of no record of the collection at the moment it is returned.            *)
(***************************************************************************)
C13_Step(p) ==
    (procs[p].pc = "attempt" /\ procs'[p].pc = "returned"
        /\ procs'[p].via = "fallback")
    => RecordsWith(procs'[p].code) = {}

C13_FallbackIsFresh == [][\A p \in Procs : C13_Step(p)]_vars

(***************************************************************************)
(* C14: a response to a request in which a store call failed is the        *)
(* generic internal error, status 500 with detail "Internal server error", *)
(* and no response carries the text of the store's exception.              *)
(***************************************************************************)
C14_FaultsAreGeneric ==
    /\ out.exc = StoreError =>
         out.status = 500 /\ out.detail = "Internal server error"
    /\ out.detail # StoreError.detail
    /\ \A k \in 1..Len(out.errors) : out.errors[k].reason # StoreError.detail

(***************************************************************************)
(* C15: the click_count of every record is a non-negative integer, and a   *)
(* step leaves it as it is or increases it by exactly 1.                   *)
(***************************************************************************)
C15_NonNegative == \A i \in 1..Len(db) : db[i].click_count \in Nat

C15_Step ==
    \A i \in 1..Len(db) :
        /\ i <= Len(db')
        /\ \/ db'[i].click_count = db[i].click_count
           \/ db'[i].click_count = db[i].click_count + 1

C15_ClickCountMonotone == []C15_NonNegative /\ [][C15_Step]_vars

C15_Witness ==
    /\ out.req.op = "list"
    /\ out.status = 200
    /\ Len(out.body) = 1
    /\ out.body[1].click_count = 1
    /\ db[1].click_count = 1

(***************************************************************************)
(* C16: a record returned by shorten or shorten-bulk is in the collection, *)
(* and a resolution that starts when a record has its short_code is never  *)
(* answered 404, whatever the other requests do: it is answered 302,       *)
(* unless one of its own store calls fails (500).                          *)
(***************************************************************************)
C16_ReturnedIsStored ==
    (out.req.op \in {"shorten", "bulk"} /\ out.status = 200) =>
        \A k \in 1..Len(out.body) :
            /\ out.body[k].id \in 1..Len(db)
            /\ db[out.body[k].id].short_code = out.body[k].short_code

C16_Step(p) ==
    /\ (AnsweredAtOnce("redirect") /\ RecordsWith(out'.req.short_code) # {}) =>
         out'.status = 500 /\ out'.exc = StoreError
    /\ (procs[p].pc = "update" /\ Acts(p)) =>
         /\ RecordsWith(procs[p].req.short_code) # {}
         /\ out'.req = procs[p].req
         /\ \/ out'.status = 302
            \/ out'.status = 500 /\ out'.exc = StoreError

C16_ReturnedStaysResolvable ==
    []C16_ReturnedIsStored /\ [][\A p \in Procs : C16_Step(p)]_vars

C16_Witness ==
    /\ out.status = 302
    /\ Len(db) = 2
    /\ \E i \in 1..Len(db) :
         /\ db[i].short_code = out.req.short_code
         /\ db[i].custom
         /\ db[i].click_count = 1
         /\ out.location = db[i].original_url

(***************************************************************************)
(* C17: when no store call of another request falls between an             *)
(* allocation's existence check and its insert, and no call of             *)
(* create_unique_short_code returns the uuid fallback, every short_code is *)
(* the short_code of at most one record.                                   *)
(***************************************************************************)
C17_SequentialCodesUnique ==
    \A i \in 1..Len(db) : Cardinality(RecordsWith(db[i].short_code)) = 1

C17_Witness ==
    /\ Len(db) = 3
    /\ \E i \in 1..Len(db) : db[i].custom
    /\ \E i, j \in 1..Len(db) : i # j /\ ~db[i].custom /\ ~db[j].custom
    /\ \A p \in Procs : procs[p].pc = "idle"
====
